---- MODULE Spec2Model ----
(***************************************************************************)
(* StudyFlow (src/src/App.tsx): the App component as a state machine.      *)
(*                                                                         *)
(* State is the component's useState cells, its useMemo cells, the wall    *)
(* clock read by `new Date()`, the host's time zone and the plan requests  *)
(* awaiting the text-generation service.                                   *)
(*                                                                         *)
(* Time is counted in hours since an epoch at 00:00 UTC; a calendar date   *)
(* 'yyyy-MM-dd' is the number of its day since that epoch.  The host has   *)
(* a fixed UTC offset (no daylight-saving change inside the horizon).      *)
(* A string is the sequence of its segments: each white-space character    *)
(* is one segment, each maximal run of other characters is one segment.    *)
(***************************************************************************)
EXTENDS Integers, Sequences, FiniteSets, TLC

VARIABLES
    examDate,                  \* useState, line 41: day number of 'yyyy-MM-dd'
    subjects,                  \* useState, line 42
    newSubject,                \* useState, line 43: the pending input field
    weakTopics,                \* useState, line 44
    newWeakTopic,              \* useState, line 45
    dailyHours,                \* useState, line 46
    aiPlan,                    \* useState, line 48: <<>> is null, <<s>> the string s
    isGenerating,              \* useState, line 49
    daysLeft,                  \* useMemo cell, lines 52-55
    readinessScore,            \* useMemo cell, lines 57-65
    spacedRepetitionSchedule,  \* useMemo cell, lines 67-76
    now,                       \* the instant `new Date()` returns
    tz,                        \* the host's UTC offset in hours
    pending,                   \* generateContent calls awaited at line 121
    lastOp                     \* the handler that ran last, with its argument

vars == <<examDate, subjects, newSubject, weakTopics, newWeakTopic, dailyHours,
          aiPlan, isGenerating, daysLeft, readinessScore,
          spacedRepetitionSchedule, now, tz, pending, lastOp>>

config == <<examDate, subjects, weakTopics, dailyHours>>
inputs == <<newSubject, newWeakTopic>>
memos  == <<daysLeft, readinessScore, spacedRepetitionSchedule>>
plan   == <<aiPlan, isGenerating, pending>>
env    == <<now, tz>>

---------------------------------------------------------------------------
(* Bounds of the exploration *)

MaxLen == 3          \* longest subjects / weakTopics list (list specifications)
MaxTopics == 11      \* longest weakTopics list (score specification)
HorizonDays == 12    \* the clock stops at 00:00 UTC of this day
TickHours == 6       \* granularity of the clock

InitInstants == {240, 249}          \* day 10, 00:00 and 09:00 UTC
TimeZones == {-8, 0, 10}
ExamDates == 9 .. 13                \* yesterday .. three days ahead
ScoreDates == {9, 10, 11, 13, 16, 40, 70, 71, 100}
HourChoices == {4, 5}

---------------------------------------------------------------------------
(* Strings *)

IsSpace(c) == c \in {" ", "\t", "\n"}

RECURSIVE TrimStart(_)
TrimStart(s) ==
    IF s # <<>> /\ IsSpace(Head(s)) THEN TrimStart(Tail(s)) ELSE s

RECURSIVE TrimEnd(_)
TrimEnd(s) ==
    IF s # <<>> /\ IsSpace(s[Len(s)]) THEN TrimEnd(SubSeq(s, 1, Len(s) - 1)) ELSE s

\* variant: only the leading white space is removed
TrimLeadingOnly(s) == TrimStart(s)

\* String.prototype.trim
Trim(s) == TrimEnd(TrimStart(s))

\* Array.prototype.join(', ')
RECURSIVE Join(_)
Join(list) ==
    IF list = <<>> THEN <<>>
    ELSE IF Len(list) = 1 THEN list[1]
    ELSE list[1] \o <<",", " ">> \o Join(Tail(list))

Mathematics == <<"Mathematics">>
Physics == <<"Physics">>
Calculus == <<"Calculus">>
QuantumMechanics == <<"Quantum", " ", "Mechanics">>

\* what the user may type into an input field
Names == { <<" ">>, <<"A">>, <<" ", "A", " ">> }
TopicNames == { <<"A">> }

---------------------------------------------------------------------------
(* Dates: date-fns and the Date constructor *)

HoursPerDay == 24

Abs(x) == IF x < 0 THEN -x ELSE x

\* the local calendar day an instant falls on
LocalDay(t, z) == (t + z) \div HoursPerDay

\* format(date, 'yyyy-MM-dd'): the local calendar date
FormatDate(t, z) == LocalDay(t, z)

\* new Date('yyyy-MM-dd'): a date-only string is midnight UTC of that date
ParseDate(d) == d * HoursPerDay

\* addDays(date, n): same local time of day, n calendar days later
AddDays(t, n) == t + n * HoursPerDay

\* isAfter(a, b)
IsAfter(a, b) == a > b

\* line 318: the check mark of a review whose date has passed
Passed(interval) == IsAfter(now, interval.date)

CompareLocalAsc(a, b) == IF a < b THEN -1 ELSE IF a > b THEN 1 ELSE 0

DifferenceInCalendarDays(later, earlier, z) == LocalDay(later, z) - LocalDay(earlier, z)

\* differenceInDays(later, earlier): the number of full days between them
DifferenceInDays(later, earlier, z) ==
    LET sign == CompareLocalAsc(later, earlier)
        difference == Abs(DifferenceInCalendarDays(later, earlier, z))
        shifted == AddDays(later, -(sign * difference))
        isLastDayNotFull == IF CompareLocalAsc(shifted, earlier) = -sign THEN 1 ELSE 0
    IN  sign * (difference - isLastDayNotFull)

---------------------------------------------------------------------------
(* The derived values (the useMemo callbacks) *)

DaysLeft(ed, t, z) ==
    LET diff == DifferenceInDays(ParseDate(ed), t, z)
    IN  IF diff > 0 THEN diff ELSE 0

Min(a, b) == IF a < b THEN a ELSE b
Max(a, b) == IF a > b THEN a ELSE b

\* Math.round of a value given in sixths: the nearest integer, halves upwards
RoundSixths(x6) == (x6 + 3) \div 6

\* variant: the score is not clamped from below
ReadinessScoreNoFloor(dl, topics) ==
    LET topicPenalty == Len(topics) * 5
        timeBonus6 == Min(50 * 6, dl * 5)
        score6 == Min(100 * 6, (50 - topicPenalty) * 6 + timeBonus6)
    IN  RoundSixths(score6)

\* computed in sixths of a point, in which (daysLeft / 60) * 50 is exact
ReadinessScore(dl, topics) ==
    LET topicPenalty == Len(topics) * 5
        timeBonus6 == Min(50 * 6, dl * 5)
        score6 == Max(0, Min(100 * 6, (50 - topicPenalty) * 6 + timeBonus6))
    IN  RoundSixths(score6)

intervals == <<1, 3, 7, 14, 30>>

\* variant: the dates are not shifted by the topic's position
SpacedRepetitionScheduleNoStagger(topics, t) ==
    [index \in 1 .. Len(topics) |->
        [topic |-> topics[index],
         intervals |-> [k \in 1 .. Len(intervals) |->
            [day |-> intervals[k],
             date |-> AddDays(t, intervals[k])]]]]

SpacedRepetitionSchedule(topics, t) ==
    [index \in 1 .. Len(topics) |->
        [topic |-> topics[index],
         intervals |-> [k \in 1 .. Len(intervals) |->
            [day |-> intervals[k],
             date |-> AddDays(t, intervals[k] + (index - 1))]]]]

\* A render after a state change: each useMemo callback runs again iff one of
\* its dependencies changed.  topicsSet: setWeakTopics was called, which always
\* installs a fresh array.
Render(topicsSet) ==
    /\ daysLeft' = IF examDate' # examDate THEN DaysLeft(examDate', now, tz)
                   ELSE daysLeft
    /\ readinessScore' = IF daysLeft' # daysLeft \/ topicsSet
                         THEN ReadinessScore(daysLeft', weakTopics')
                         ELSE readinessScore
    /\ spacedRepetitionSchedule' = IF topicsSet
                                   THEN SpacedRepetitionSchedule(weakTopics', now)
                                   ELSE spacedRepetitionSchedule

Op(name, idx, str) == [op |-> name, idx |-> idx, name |-> str]

---------------------------------------------------------------------------
(* Construction: lines 41-49 and the first render *)

Init ==
    /\ now \in InitInstants
    /\ tz \in TimeZones
    /\ examDate = FormatDate(AddDays(now, 30), tz)
    /\ subjects = <<Mathematics, Physics>>
    /\ newSubject = <<>>
    /\ weakTopics = <<Calculus, QuantumMechanics>>
    /\ newWeakTopic = <<>>
    /\ dailyHours = 4
    /\ aiPlan = <<>>
    /\ isGenerating = FALSE
    /\ daysLeft = DaysLeft(examDate, now, tz)
    /\ readinessScore = ReadinessScore(daysLeft, weakTopics)
    /\ spacedRepetitionSchedule = SpacedRepetitionSchedule(weakTopics, now)
    /\ pending = <<>>
    /\ lastOp = Op("init", 0, <<>>)

---------------------------------------------------------------------------
(* Configuration handlers *)

\* line 190
SetExamDate(d) ==
    /\ examDate' = d
    /\ UNCHANGED <<subjects, weakTopics, dailyHours, inputs, plan, env>>
    /\ Render(FALSE)
    /\ lastOp' = Op("setExamDate", d, <<>>)

\* line 202
SetDailyHours(n) ==
    /\ dailyHours' = n
    /\ UNCHANGED <<examDate, subjects, weakTopics, inputs, plan, env, memos>>
    /\ lastOp' = Op("setDailyHours", n, <<>>)

\* line 219
SetNewSubject(s) ==
    /\ newSubject' = s
    /\ UNCHANGED <<config, newWeakTopic, plan, env, memos>>
    /\ lastOp' = Op("setNewSubject", 0, s)

\* line 249
SetNewWeakTopic(s) ==
    /\ newWeakTopic' = s
    /\ UNCHANGED <<config, newSubject, plan, env, memos>>
    /\ lastOp' = Op("setNewWeakTopic", 0, s)

\* variant: filter by value, every entry equal to the one at index goes
FilterOutByValue(list, index) ==
    IF index \in 0 .. Len(list) - 1
    THEN SelectSeq(list, LAMBDA e : e # list[index + 1])
    ELSE list

\* Array.prototype.filter((_, i) => i !== index), index counted from 0
FilterOut(list, index) ==
    LET keep == { i \in 1 .. Len(list) : i - 1 # index }
        F[i \in 0 .. Len(list)] ==
            IF i = 0 THEN <<>>
            ELSE IF i \in keep THEN Append(F[i - 1], list[i]) ELSE F[i - 1]
    IN  F[Len(list)]

HandleAddSubject ==
    /\ IF Trim(newSubject) # <<>>
       THEN /\ subjects' = Append(subjects, Trim(newSubject))
            /\ newSubject' = <<>>
       ELSE UNCHANGED <<subjects, newSubject>>
    /\ UNCHANGED <<examDate, weakTopics, dailyHours, newWeakTopic, plan, env, memos>>
    /\ lastOp' = Op("addSubject", 0, newSubject)

HandleRemoveSubject(index) ==
    /\ subjects' = FilterOut(subjects, index)
    /\ UNCHANGED <<examDate, weakTopics, dailyHours, inputs, plan, env, memos>>
    /\ lastOp' = Op("removeSubject", index, <<>>)

HandleAddWeakTopic ==
    /\ IF Trim(newWeakTopic) # <<>>
       THEN /\ weakTopics' = Append(weakTopics, Trim(newWeakTopic))
            /\ newWeakTopic' = <<>>
            /\ UNCHANGED examDate
            /\ Render(TRUE)
       ELSE UNCHANGED <<weakTopics, newWeakTopic, examDate, memos>>
    /\ UNCHANGED <<subjects, dailyHours, newSubject, plan, env>>
    /\ lastOp' = Op("addWeakTopic", 0, newWeakTopic)

HandleRemoveWeakTopic(index) ==
    /\ weakTopics' = FilterOut(weakTopics, index)
    /\ UNCHANGED <<examDate, subjects, dailyHours, inputs, plan, env>>
    /\ Render(TRUE)
    /\ lastOp' = Op("removeWeakTopic", index, <<>>)

\* time passes; nothing renders
Tick ==
    /\ now' = now + TickHours
    /\ UNCHANGED <<config, inputs, plan, memos, tz>>
    /\ lastOp' = Op("tick", 0, <<>>)

---------------------------------------------------------------------------
(* Plan generation: generateAiPlan, lines 100-133 *)

FailedMessage == "Failed to generate plan."
ErrorMessage == "Error connecting to Gemini API. Please check your API key."

\* response.text as the service may return it; "" stands for an empty or
\* missing text
ResponseTexts == {"# Plan A", "# Plan B", ""}
Outcomes == [kind : {"fulfilled"}, text : ResponseTexts]
                \cup {[kind |-> "rejected", text |-> ""]}

\* the template literal of lines 104-119: the values it interpolates
Prompt ==
    [examDate |-> examDate, daysLeft |-> daysLeft, subjects |-> Join(subjects),
     weakTopics |-> Join(weakTopics), dailyHours |-> dailyHours]

\* variant: the button is never disabled
ButtonAlwaysEnabled == TRUE

\* disabled={isGenerating}, line 275: whether the button takes a click
ButtonEnabled == ~isGenerating

\* the sequence without its i-th element
RemoveAt(seq, i) == SubSeq(seq, 1, i - 1) \o SubSeq(seq, i + 1, Len(seq))

\* a click on the button: lines 101-121, up to the await
GenerateAiPlan ==
    /\ ButtonEnabled
    /\ isGenerating' = TRUE
    /\ pending' = Append(pending, [prompt |-> Prompt, state |-> "waiting", text |-> ""])
    /\ UNCHANGED <<config, inputs, aiPlan, env, memos>>
    /\ lastOp' = Op("generateAiPlan", 0, <<>>)

\* a click on the button when the client constructor or the call throws
\* before the await: lines 101-103, 127-132 in one event handler
GenerateAiPlanThrows ==
    /\ ButtonEnabled
    /\ aiPlan' = <<ErrorMessage>>
    /\ isGenerating' = FALSE
    /\ UNCHANGED <<config, inputs, pending, env, memos>>
    /\ lastOp' = Op("generateAiPlanThrows", 0, <<>>)

\* the service settles the i-th awaited call
Settle(i, outcome) ==
    /\ i \in 1 .. Len(pending)
    /\ pending[i].state = "waiting"
    /\ pending' = [pending EXCEPT ![i].state = outcome.kind, ![i].text = outcome.text]
    /\ UNCHANGED <<config, inputs, aiPlan, isGenerating, env, memos>>
    /\ lastOp' = Op("settle", i, <<>>)

\* variant: the response text is stored without the `||` fallback
ResumeWithoutFallback(i) ==
    /\ i \in 1 .. Len(pending)
    /\ pending[i].state # "waiting"
    /\ aiPlan' = IF pending[i].state = "fulfilled"
                 THEN <<pending[i].text>>
                 ELSE <<ErrorMessage>>
    /\ isGenerating' = FALSE
    /\ pending' = RemoveAt(pending, i)
    /\ UNCHANGED <<config, inputs, env, memos>>
    /\ lastOp' = Op("resume", i, <<>>)

\* the handler resumes after the await: lines 126-132
Resume(i) ==
    /\ i \in 1 .. Len(pending)
    /\ pending[i].state # "waiting"
    /\ aiPlan' = IF pending[i].state = "fulfilled"
                 THEN <<IF pending[i].text # "" THEN pending[i].text ELSE FailedMessage>>
                 ELSE <<ErrorMessage>>
    /\ isGenerating' = FALSE
    /\ pending' = RemoveAt(pending, i)
    /\ UNCHANGED <<config, inputs, env, memos>>
    /\ lastOp' = Op("resume", i, <<>>)

---------------------------------------------------------------------------
(* Specifications *)

ClockRuns == now + TickHours <= HorizonDays * HoursPerDay

\* the lists and their input fields
NextConfig ==
    \/ \E s \in Names : SetNewSubject(s)
    \/ Len(subjects) < MaxLen /\ HandleAddSubject
    \/ \E index \in -1 .. MaxLen : HandleRemoveSubject(index)
    \/ \E s \in Names : SetNewWeakTopic(s)
    \/ Len(weakTopics) < MaxLen /\ HandleAddWeakTopic
    \/ \E index \in -1 .. MaxLen : HandleRemoveWeakTopic(index)

SpecConfig == Init /\ [][NextConfig]_vars

\* the countdown against the clock
NextCountdown ==
    \/ \E d \in ExamDates : SetExamDate(d)
    \/ \E n \in HourChoices : SetDailyHours(n)
    \/ ClockRuns /\ Tick

SpecCountdown == Init /\ [][NextCountdown]_vars

\* the review schedule against the clock
NextSchedule ==
    \/ \E s \in TopicNames : SetNewWeakTopic(s)
    \/ Len(weakTopics) < MaxLen /\ HandleAddWeakTopic
    \/ \E index \in 0 .. MaxLen : HandleRemoveWeakTopic(index)
    \/ ClockRuns /\ Tick

SpecSchedule == Init /\ [][NextSchedule]_vars

\* the readiness score over its whole range
NextScore ==
    \/ \E d \in ScoreDates : SetExamDate(d)
    \/ \E s \in TopicNames : SetNewWeakTopic(s)
    \/ Len(weakTopics) < MaxTopics /\ HandleAddWeakTopic
    \/ HandleRemoveWeakTopic(0)

SpecScore == Init /\ [][NextScore]_vars

\* plan requests interleaved with configuration changes
NextPlan ==
    \/ GenerateAiPlan
    \/ GenerateAiPlanThrows
    \/ \E i \in 1 .. Len(pending), outcome \in Outcomes : Settle(i, outcome)
    \/ \E i \in 1 .. Len(pending) : Resume(i)
    \/ \E n \in HourChoices : SetDailyHours(n)
    \/ HandleRemoveWeakTopic(0)

SpecPlan == Init /\ [][NextPlan]_vars

\* the event loop runs a settled continuation; the service is assumed to settle
SpecPlanFair ==
    /\ SpecPlan
    /\ WF_vars(\E i \in 1 .. Len(pending), outcome \in Outcomes : Settle(i, outcome))
    /\ WF_vars(\E i \in 1 .. Len(pending) : Resume(i))

Next == NextConfig \/ NextCountdown \/ NextSchedule \/ NextScore \/ NextPlan

Spec == Init /\ [][Next]_vars

---------------------------------------------------------------------------
(* Properties *)

Today == LocalDay(now, tz)

\* C1: the countdown is a natural number, and it is 0 whenever the exam date
\* is today or in the past.
C1_DaysLeftZeroWhenDue ==
    /\ daysLeft \in Nat
    /\ examDate <= Today => daysLeft = 0

\* C2: whenever the countdown is computed for a new exam date, it is the
\* number of calendar days from today to the exam date, or 0 if that is
\* negative, whatever the time of day.
C2_CalendarDayDifference ==
    [][examDate' # examDate => daysLeft' = Max(0, examDate' - LocalDay(now', tz'))]_vars

\* C3: the readiness score is an integer from 0 to 100; it is 100 with 60
\* days left and no weak topic, and 0 with no day left and 10 weak topics.
C3_ReadinessInRange ==
    /\ readinessScore \in 0 .. 100
    /\ daysLeft = 60 /\ Len(weakTopics) = 0 => readinessScore = 100
    /\ daysLeft = 0 /\ Len(weakTopics) = 10 => readinessScore = 0

C3_Witness ==
    /\ lastOp.op = "removeWeakTopic"
    /\ daysLeft = 60
    /\ weakTopics = <<>>
    /\ readinessScore = 100

Offsets == <<1, 3, 7, 14, 30>>

\* one item per topic in list order, each with the five offsets in order
ScheduleShape(sched, topics) ==
    /\ DOMAIN sched = 1 .. Len(topics)
    /\ \A i \in 1 .. Len(topics) :
        /\ sched[i].topic = topics[i]
        /\ DOMAIN sched[i].intervals = 1 .. 5
        /\ \A k \in 1 .. 5 : sched[i].intervals[k].day = Offsets[k]

\* the k-th date of the item at 0-based position i - 1 is t + (offset + i - 1) days
ScheduleDates(sched, t) ==
    \A i \in DOMAIN sched : \A k \in 1 .. 5 :
        sched[i].intervals[k].date = t + (Offsets[k] + (i - 1)) * 24

\* C4: the schedule always has one item per weak topic, in list order, with
\* the offsets 1, 3, 7, 14, 30 in order; and whenever it is produced (at
\* construction and each time weakTopics is set) its k-th date for the topic
\* at position i is that instant plus (offset_k + i) days.
C4_ScheduleAsSpecified ==
    /\ ScheduleDates(spacedRepetitionSchedule, now)
    /\ [] ScheduleShape(spacedRepetitionSchedule, weakTopics)
    /\ [][(spacedRepetitionSchedule' # spacedRepetitionSchedule \/ weakTopics' # weakTopics)
            => ScheduleDates(spacedRepetitionSchedule', now')]_vars

C4_Witness ==
    /\ lastOp.op = "addWeakTopic"
    /\ Len(weakTopics) = 3
    /\ weakTopics[3] = <<"A">>
    /\ spacedRepetitionSchedule[3].intervals[5].date = now + 32 * 24

\* C5: no two different topics of the schedule have a review on the same
\* calendar day.
C5_NoSharedReviewDay ==
    \A i, j \in DOMAIN spacedRepetitionSchedule : \A k, l \in 1 .. 5 :
        i # j => LocalDay(spacedRepetitionSchedule[i].intervals[k].date, tz)
                    # LocalDay(spacedRepetitionSchedule[j].intervals[l].date, tz)

\* the list without the element at 0-based position index, unchanged when
\* there is no such position
WithoutPosition(list, index) ==
    IF index \in 0 .. Len(list) - 1
    THEN SubSeq(list, 1, index) \o SubSeq(list, index + 2, Len(list))
    ELSE list

\* C6: a removal deletes exactly the element at the given position, keeps the
\* others in order, changes nothing when the position is out of bounds, and
\* leaves the other list, the exam date and the daily hours alone.
C6_RemoveByPosition ==
    [][/\ lastOp'.op = "removeSubject" =>
            /\ subjects' = WithoutPosition(subjects, lastOp'.idx)
            /\ UNCHANGED <<weakTopics, examDate, dailyHours>>
       /\ lastOp'.op = "removeWeakTopic" =>
            /\ weakTopics' = WithoutPosition(weakTopics, lastOp'.idx)
            /\ UNCHANGED <<subjects, examDate, dailyHours>>]_vars

C6_Witness ==
    /\ lastOp.op = "removeSubject"
    /\ lastOp.idx = 1
    /\ subjects = <<Mathematics, <<"A">>>>

IsBlank(name) == \A q \in 1 .. Len(name) : IsSpace(name[q])

\* e is name without its leading and trailing white space
IsTrimmed(e, name) ==
    /\ e # <<>>
    /\ ~IsSpace(e[1]) /\ ~IsSpace(e[Len(e)])
    /\ \E p \in 1 .. Len(name) :
        /\ SubSeq(name, p, p + Len(e) - 1) = e
        /\ \A q \in 1 .. p - 1 : IsSpace(name[q])
        /\ \A q \in p + Len(e) .. Len(name) : IsSpace(name[q])

\* the list after an add of name, as the claim has it: name itself is appended
AddedVerbatim(list, name) == IF IsBlank(name) THEN list ELSE Append(list, name)

\* C7 as stated: an add appends the name itself iff it is not blank, and
\* otherwise leaves the list unchanged.
C7_AppendsNameVerbatim ==
    [][/\ lastOp'.op = "addSubject" => subjects' = AddedVerbatim(subjects, lastOp'.name)
       /\ lastOp'.op = "addWeakTopic" => weakTopics' = AddedVerbatim(weakTopics, lastOp'.name)]_vars

\* list2 is list with one new last element, the trimmed name; or list itself
\* when the name is blank
AddedTrimmed(list, list2, name) ==
    IF IsBlank(name) THEN list2 = list
    ELSE /\ Len(list2) = Len(list) + 1
         /\ SubSeq(list2, 1, Len(list)) = list
         /\ IsTrimmed(list2[Len(list2)], name)

\* C7, amended: an add appends the name without its leading and trailing
\* white space as the new last element iff the name is not blank; a blank
\* name leaves the list unchanged; the existing elements keep their order.
C7_AppendsTrimmedName ==
    [][/\ lastOp'.op = "addSubject" => AddedTrimmed(subjects, subjects', lastOp'.name)
       /\ lastOp'.op = "addWeakTopic" => AddedTrimmed(weakTopics, weakTopics', lastOp'.name)]_vars

C7_Witness ==
    /\ lastOp.op = "addSubject"
    /\ lastOp.name = <<" ", "A", " ">>
    /\ Len(subjects) = 3
    /\ subjects[3] = <<"A">>

Fallbacks == {FailedMessage, ErrorMessage}

PlanShown == aiPlan # <<>> /\ aiPlan[1] # ""

\* C8: a started request is eventually resolved: the in-flight flag is false
\* again and the plan slot holds a non-empty string.  The step that resolves
\* it leaves no request pending and stores the response text when the call
\* succeeded with a non-empty text, a fallback message otherwise.
C8_RequestResolves ==
    /\ isGenerating ~> (~isGenerating /\ PlanShown)
    /\ [][lastOp'.op \in {"resume", "generateAiPlanThrows"} =>
            /\ ~isGenerating' /\ pending' = <<>>
            /\ Len(aiPlan') = 1 /\ aiPlan'[1] # ""
            /\ IF lastOp'.op = "resume" /\ pending[lastOp'.idx].state = "fulfilled"
                    /\ pending[lastOp'.idx].text # ""
               THEN aiPlan'[1] = pending[lastOp'.idx].text
               ELSE aiPlan'[1] \in Fallbacks]_vars

C8_Witness ==
    /\ lastOp.op = "resume"
    /\ ~isGenerating
    /\ pending = <<>>
    /\ aiPlan = <<FailedMessage>>

\* C9: at most one request is in flight, the flag is set while it is, and no
\* step starts a request while the flag is set.
C9_OneRequestInFlight ==
    /\ [](Len(pending) <= 1 /\ (pending # <<>> => isGenerating))
    /\ [][isGenerating => Len(pending') <= Len(pending)]_vars

C9_Witness ==
    /\ isGenerating
    /\ Len(pending) = 1
    /\ lastOp.op = "setDailyHours"

\* C10: every render shows the derived values of the current configuration
\* at the current instant (every step but the passing of time renders).
C10_DerivedValuesCurrent ==
    [][lastOp'.op # "tick" =>
        /\ daysLeft' = DaysLeft(examDate', now', tz')
        /\ readinessScore' = ReadinessScore(DaysLeft(examDate', now', tz'), weakTopics')
        /\ spacedRepetitionSchedule' = SpacedRepetitionSchedule(weakTopics', now')]_vars

====
